---- MODULE Spec2Model ----
(***************************************************************************)
(* Model of Mikrotikconvert.py: the /upload handler and the migration      *)
(* pipeline parse_and_migrate with every function it calls.  Text is kept  *)
(* as strings; the string functions and the regular expressions of the     *)
(* source are computed character by character.                             *)
(***************************************************************************)
EXTENDS Integers, Sequences, FiniteSets, TLC

VARIABLES pc, file_name, source_model, target_model,
          source_config, config_content, prev_content, params,
          interface_mappings, firewall_rules, prev_section,
          calls, exception, response

vars == <<pc, file_name, source_model, target_model,
          source_config, config_content, prev_content, params,
          interface_mappings, firewall_rules, prev_section,
          calls, exception, response>>

(***************************************************************************)
(* Bounds of the model.                                                    *)
(***************************************************************************)
\* Largest number of lines of an uploaded configuration.
MaxLines == 3

(***************************************************************************)
(* Python str operations.                                                  *)
(***************************************************************************)
\* s[i-1], or "" past either end.
At(s, i) == IF i >= 1 /\ i <= Len(s) THEN SubSeq(s, i, i) ELSE ""

\* s[i-1:] (the rest of s from position i).
From(s, i) == IF i > Len(s) THEN "" ELSE SubSeq(s, i, Len(s))

\* s.startswith(p, i-1)
StartsAt(s, p, i) ==
    /\ i >= 1
    /\ i + Len(p) - 1 <= Len(s)
    /\ SubSeq(s, i, i + Len(p) - 1) = p

\* The least element of a non-empty set of positions.
Least(S) == CHOOSE i \in S : \A j \in S : i <= j

\* s.find(p, i-1) + 1: the first position >= i where p occurs, 0 when none.
Find(s, p, i) ==
    LET hits == {j \in i..(Len(s) - Len(p) + 1) : StartsAt(s, p, j)}
    IN  IF hits = {} THEN 0 ELSE Least(hits)

\* p in s
Contains(s, p) == Find(s, p, 1) # 0

\* s.replace(old, new): every non-overlapping occurrence, left to right.
RECURSIVE Replace(_, _, _)
Replace(s, old, new) ==
    LET i == Find(s, old, 1)
    IN  IF i = 0 THEN s
        ELSE SubSeq(s, 1, i - 1) \o new
             \o Replace(From(s, i + Len(old)), old, new)

\* s.splitlines(): no line for the text after a final line break.
RECURSIVE SplitLines(_)
SplitLines(s) ==
    IF s = "" THEN <<>>
    ELSE LET i == Find(s, "\n", 1)
         IN  IF i = 0 THEN <<s>>
             ELSE <<SubSeq(s, 1, i - 1)>> \o SplitLines(From(s, i + 1))

\* sep.join(lines)
RECURSIVE Join(_, _)
Join(lines, sep) ==
    IF lines = <<>> THEN ""
    ELSE IF Len(lines) = 1 THEN lines[1]
    ELSE lines[1] \o sep \o Join(Tail(lines), sep)

\* The characters str.strip() removes and the regular expressions' \s matches.
Whitespace == {" ", "\t", "\n", "\r"}

RECURSIVE LStrip(_)
LStrip(s) == IF s # "" /\ At(s, 1) \in Whitespace THEN LStrip(From(s, 2)) ELSE s

RECURSIVE RStrip(_)
RStrip(s) ==
    IF s # "" /\ At(s, Len(s)) \in Whitespace
    THEN RStrip(SubSeq(s, 1, Len(s) - 1))
    ELSE s

\* s.strip()
Strip(s) == RStrip(LStrip(s))

(***************************************************************************)
(* Pieces of the regular expressions.  Every matcher takes a position and  *)
(* gives the position after the match, 0 when there is no match.           *)
(***************************************************************************)
Digits == {"0", "1", "2", "3", "4", "5", "6", "7", "8", "9"}

LowerLetters == {"a", "b", "c", "d", "e", "f", "g", "h", "i", "j", "k", "l", "m",
                 "n", "o", "p", "q", "r", "s", "t", "u", "v", "w", "x", "y", "z"}

UpperLetters == {"A", "B", "C", "D", "E", "F", "G", "H", "I", "J", "K", "L", "M",
                 "N", "O", "P", "Q", "R", "S", "T", "U", "V", "W", "X", "Y", "Z"}

\* \w
WordChars == Digits \cup LowerLetters \cup UpperLetters \cup {"_"}

\* \d+ at i (greedy): the position after the digits, i itself when none.
RECURSIVE DigitsEnd(_, _)
DigitsEnd(s, i) == IF At(s, i) \in Digits THEN DigitsEnd(s, i + 1) ELSE i

\* \s* at i (greedy).
RECURSIVE SkipWs(_, _)
SkipWs(s, i) == IF At(s, i) \in Whitespace THEN SkipWs(s, i + 1) ELSE i

\* \S+ at i (greedy): the position after the run, i itself when none.
RECURSIVE NonWsEnd(_, _)
NonWsEnd(s, i) ==
    IF At(s, i) # "" /\ At(s, i) \notin Whitespace THEN NonWsEnd(s, i + 1) ELSE i

\* \s*=\s* at i.
EqualsEnd(s, i) ==
    LET j == SkipWs(s, i)
    IN  IF At(s, j) = "=" THEN SkipWs(s, j + 1) ELSE 0

\* (ether\d+|sfp\d+) at i.
IfaceEnd(s, i) ==
    IF StartsAt(s, "ether", i) /\ DigitsEnd(s, i + 5) > i + 5
        THEN DigitsEnd(s, i + 5)
    ELSE IF StartsAt(s, "sfp", i) /\ DigitsEnd(s, i + 3) > i + 3
        THEN DigitsEnd(s, i + 3)
    ELSE 0

\* \d+\.\d+\.\d+\.\d+ at i.
IPv4End(s, i) ==
    LET a == DigitsEnd(s, i)
        b == DigitsEnd(s, a + 1)
        c == DigitsEnd(s, b + 1)
        d == DigitsEnd(s, c + 1)
    IN  IF /\ a > i     /\ At(s, a) = "."
           /\ b > a + 1 /\ At(s, b) = "."
           /\ c > b + 1 /\ At(s, c) = "."
           /\ d > c + 1
        THEN d ELSE 0

\* re.search(prefix + r'(ether\d+|sfp\d+)', line): group 2 of the leftmost
\* match, "" when the line has none.
RECURSIVE SearchIface(_, _, _)
SearchIface(line, prefix, i) ==
    LET p == Find(line, prefix, i)
        e == IfaceEnd(line, p + Len(prefix))
    IN  IF p = 0 THEN ""
        ELSE IF e # 0 THEN SubSeq(line, p + Len(prefix), e - 1)
        ELSE SearchIface(line, prefix, p + 1)

\* str.lower() of one character, as re.IGNORECASE compares.
UpperAlphabet == "ABCDEFGHIJKLMNOPQRSTUVWXYZ"

LowerAlphabet == "abcdefghijklmnopqrstuvwxyz"

LowerChar(c) ==
    IF c \in UpperLetters THEN At(LowerAlphabet, Find(UpperAlphabet, c, 1)) ELSE c

\* s.lower(), by halves.
RECURSIVE Lower(_)
Lower(s) ==
    IF Len(s) <= 1 THEN LowerChar(s)
    ELSE Lower(SubSeq(s, 1, Len(s) \div 2))
         \o Lower(SubSeq(s, Len(s) \div 2 + 1, Len(s)))

(***************************************************************************)
(* Helper functions of the source (lines 177-279).                         *)
(***************************************************************************)
\* re.search(r'router-id\s*=\s*(\S+)'): group 1 of the leftmost match.
RECURSIVE SearchRouterId(_, _)
SearchRouterId(s, i) ==
    LET p == Find(s, "router-id", i)
        e == EqualsEnd(s, p + 9)
    IN  IF p = 0 THEN ""
        ELSE IF e # 0 /\ NonWsEnd(s, e) > e THEN SubSeq(s, e, NonWsEnd(s, e) - 1)
        ELSE SearchRouterId(s, p + 1)

extract_router_id(text) ==
    LET m == SearchRouterId(text, 1)
    IN  IF m # "" THEN m ELSE "<dynamic-router-id>"

\* re.search(r'\bas\s*=\s*(\d+)'): group 1 of the leftmost match.
RECURSIVE SearchAs(_, _)
SearchAs(s, i) ==
    LET p == Find(s, "as", i)
        e == EqualsEnd(s, p + 2)
    IN  IF p = 0 THEN ""
        ELSE IF At(s, p - 1) \notin WordChars /\ e # 0 /\ DigitsEnd(s, e) > e
            THEN SubSeq(s, e, DigitsEnd(s, e) - 1)
        ELSE SearchAs(s, p + 1)

extract_as_number(text) ==
    LET m == SearchAs(text, 1)
    IN  IF m # "" THEN m ELSE "65000"

\* address\s*=\s*(\d+\.\d+\.\d+\.\d+)/(\d+) at i: "<group 1>/<group 2>", ""
\* when it does not match there.
AddressAt(s, low, i) ==
    LET e == IF StartsAt(low, "address", i) THEN EqualsEnd(s, i + 7) ELSE 0
        q == IF e = 0 THEN 0 ELSE IPv4End(s, e)
    IN  IF q # 0 /\ At(s, q) = "/" /\ DigitsEnd(s, q + 1) > q + 1
        THEN SubSeq(s, e, DigitsEnd(s, q + 1) - 1)
        ELSE ""

RECURSIVE SearchAddress(_, _)
SearchAddress(s, i) ==
    LET p == Find(s, "address", i)
    IN  IF p = 0 THEN ""
        ELSE IF AddressAt(s, s, p) # "" THEN AddressAt(s, s, p)
        ELSE SearchAddress(s, p + 1)

extract_lan_network(text) ==
    LET m == SearchAddress(text, 1)
    IN  IF m # "" THEN m ELSE "0.0.0.0/22"

\* .*?address... from q: the first position on the same line where the address
\* pattern matches (. does not match a line break).
LazyAddress(s, low, q) ==
    LET eol  == Find(s, "\n", q)
        stop == IF eol = 0 THEN Len(s) ELSE eol
        hits == {j \in q..stop : AddressAt(s, low, j) # ""}
    IN  IF hits = {} THEN "" ELSE AddressAt(s, low, Least(hits))

\* re.search(r'interface=loopback.*?address\s*=\s*(...)/(\d+)', re.IGNORECASE)
RECURSIVE SearchLoopback(_, _, _)
SearchLoopback(s, low, i) ==
    LET p == Find(low, "interface=loopback", i)
    IN  IF p = 0 THEN ""
        ELSE IF LazyAddress(s, low, p + 18) # "" THEN LazyAddress(s, low, p + 18)
        ELSE SearchLoopback(s, low, p + 1)

extract_loopback_network(text) ==
    LET m == SearchLoopback(text, Lower(text), 1)
    IN  IF m # "" THEN m ELSE "0.0.0.0/32"

\* re.findall(r'remote\.address\s*=\s*(\d+\.\d+\.\d+\.\d+)'): the matches in
\* order, each search starting where the last match ended.
RECURSIVE FindAllPeers(_, _)
FindAllPeers(s, i) ==
    LET p == Find(s, "remote.address", i)
        e == EqualsEnd(s, p + 14)
        q == IF e = 0 THEN 0 ELSE IPv4End(s, e)
    IN  IF p = 0 THEN <<>>
        ELSE IF q # 0 THEN <<SubSeq(s, e, q - 1)>> \o FindAllPeers(s, q)
        ELSE FindAllPeers(s, p + 1)

extract_peer_ips(text) ==
    LET matches == FindAllPeers(text, 1)
    IN  IF matches # <<>> THEN matches ELSE <<"0.0.0.0", "0.0.0.0">>

\* The firewall section: from the first line that starts with /ip firewall to
\* the first blank line after it.
RECURSIVE FirewallLoop(_, _, _)
FirewallLoop(lines, in_firewall_section, firewall_section) ==
    IF lines = <<>> THEN firewall_section
    ELSE LET line == Head(lines)
         IN  IF StartsAt(Strip(line), "/ip firewall", 1)
                 THEN FirewallLoop(Tail(lines), TRUE, Append(firewall_section, line))
             ELSE IF in_firewall_section
                 THEN IF Strip(line) = "" THEN firewall_section
                      ELSE FirewallLoop(Tail(lines), TRUE,
                                        Append(firewall_section, line))
             ELSE FirewallLoop(Tail(lines), FALSE, firewall_section)

extract_firewall_rules(text) ==
    Join(FirewallLoop(SplitLines(text), FALSE, <<>>), "\n")

\* remove_duplicates: a line is kept when its stripped text is not empty and
\* was not seen before; the kept line keeps its spacing.
RECURSIVE DedupLoop(_, _, _)
DedupLoop(lines, seen, unique_lines) ==
    IF lines = <<>> THEN unique_lines
    ELSE LET line == Head(lines)
             stripped_line == Strip(line)
         IN  IF stripped_line # "" /\ stripped_line \notin seen
                 THEN DedupLoop(Tail(lines), seen \cup {stripped_line},
                                Append(unique_lines, line))
             ELSE DedupLoop(Tail(lines), seen, unique_lines)

\* The dedup as a comparison of the lines as written would make it: a line
\* that differs from an earlier one in its spacing is kept.
RECURSIVE DedupLoopUnstripped(_, _, _)
DedupLoopUnstripped(lines, seen, unique_lines) ==
    IF lines = <<>> THEN unique_lines
    ELSE LET line == Head(lines)
         IN  IF line # "" /\ line \notin seen
                 THEN DedupLoopUnstripped(Tail(lines), seen \cup {line},
                                          Append(unique_lines, line))
             ELSE DedupLoopUnstripped(Tail(lines), seen, unique_lines)

remove_duplicates_unstripped(section) ==
    Join(DedupLoopUnstripped(SplitLines(section), {}, <<>>), "\n")

remove_duplicates(section) == Join(DedupLoop(SplitLines(section), {}, <<>>), "\n")

(***************************************************************************)
(* dict operations.                                                        *)
(***************************************************************************)
EmptyDict == [k \in {} |-> ""]

\* d[key] = value
Put(d, key, value) == (key :> value) @@ d

\* d.get(key, default)
Get(d, key, default) == IF key \in DOMAIN d THEN d[key] ELSE default

(***************************************************************************)
(* dynamic_interface_mapping (lines 24-55).                                *)
(***************************************************************************)
RECURSIVE MappingLoop(_, _, _, _)
MappingLoop(lines, sfp_index, mappings, new_config_lines) ==
    IF lines = <<>>
    THEN [config |-> Join(new_config_lines, "\n"), mappings |-> mappings]
    ELSE LET line == Head(lines)
             old_iface == SearchIface(line, "default-name=", 1)
             new_iface == "sfp-sfpplus" \o ToString(sfp_index)
         IN  IF old_iface # ""
             THEN MappingLoop(Tail(lines), sfp_index + 1,
                              Put(mappings, old_iface, new_iface),
                              Append(new_config_lines,
                                     Replace(line, old_iface, new_iface)))
             ELSE MappingLoop(Tail(lines), sfp_index, mappings,
                              Append(new_config_lines, line))

\* The assignment as a numbering by the digits of the old name would make it:
\* ether2 becomes sfp-sfpplus2 wherever its line stands.
RECURSIVE MappingLoopByDigits(_, _, _)
MappingLoopByDigits(lines, mappings, new_config_lines) ==
    IF lines = <<>>
    THEN [config |-> Join(new_config_lines, "\n"), mappings |-> mappings]
    ELSE LET line == Head(lines)
             old_iface == SearchIface(line, "default-name=", 1)
             digits == From(old_iface,
                            IF StartsAt(old_iface, "ether", 1) THEN 6 ELSE 4)
             new_iface == "sfp-sfpplus" \o digits
         IN  IF old_iface # ""
             THEN MappingLoopByDigits(Tail(lines),
                              Put(mappings, old_iface, new_iface),
                              Append(new_config_lines,
                                     Replace(line, old_iface, new_iface)))
             ELSE MappingLoopByDigits(Tail(lines), mappings,
                                      Append(new_config_lines, line))

dynamic_interface_mapping_by_digits(text, source, target) ==
    IF target = "2004"
    THEN MappingLoopByDigits(SplitLines(text), EmptyDict, <<>>)
    ELSE [config |-> text, mappings |-> EmptyDict]

dynamic_interface_mapping(text, source, target) ==
    IF target = "2004"
    THEN MappingLoop(SplitLines(text), 1, EmptyDict, <<>>)
    ELSE [config |-> text, mappings |-> EmptyDict]

(***************************************************************************)
(* migrate_ip_addresses (lines 59-86) and migrate_ip_routes (228-254): the *)
(* same loop over another section header and another key.                  *)
(***************************************************************************)
RECURSIVE SectionRewriteLoop(_, _, _, _, _, _)
SectionRewriteLoop(lines, header, key, mappings, in_section, migrated_lines) ==
    IF lines = <<>> THEN migrated_lines
    ELSE LET line == Head(lines)
             old_iface == SearchIface(line, key, 1)
             new_iface == Get(mappings, old_iface, old_iface)
         IN  IF StartsAt(Strip(line), header, 1)
                 THEN SectionRewriteLoop(Tail(lines), header, key, mappings, TRUE,
                                         Append(migrated_lines, line))
             ELSE IF in_section /\ Contains(line, key) /\ old_iface # ""
                 THEN SectionRewriteLoop(Tail(lines), header, key, mappings,
                          in_section,
                          Append(migrated_lines,
                                 Replace(line, old_iface, new_iface)))
             ELSE SectionRewriteLoop(Tail(lines), header, key, mappings,
                                     in_section, Append(migrated_lines, line))

migrate_ip_addresses(text, mappings) ==
    Join(SectionRewriteLoop(SplitLines(text), "/ip address", "interface=",
                            mappings, FALSE, <<>>), "\n")

migrate_ip_routes(text, mappings) ==
    Join(SectionRewriteLoop(SplitLines(text), "/ip route", "gateway=",
                            mappings, FALSE, <<>>), "\n")

(***************************************************************************)
(* transform_ospf_2004 (lines 89-110) and transform_bgp_2004 (114-125).    *)
(***************************************************************************)
\* The number of positional parameters transform_ospf_2004 declares.
transform_ospf_2004_params == 4

\* The number of arguments parse_and_migrate passes to it.
transform_ospf_2004_args == 3

\* The re.sub calls rewrite the local config_content only; the result is the
\* formatted block.
transform_ospf_2004(router_id, lan_network, loopback_network, text) ==
    "/routing ospf instance\n"
    \o "add disabled=no name=default-v2 router-id=" \o router_id
    \o " version=2 redistribute-connected=yes redistribute-static=yes\n"
    \o "/routing ospf area\n"
    \o "add disabled=no instance=default-v2 name=backbone-v2\n"
    \o "/routing ospf interface-template\n"
    \o "add area=backbone-v2 cost=10 disabled=no interfaces=loop0 networks="
    \o loopback_network \o " passive=yes priority=1\n"
    \o "add area=backbone-v2 cost=10 disabled=no interfaces=lan-bridge networks="
    \o lan_network \o " priority=1\n"

BgpConnection(name, peer, router_id, as_number) ==
    "add name=" \o name \o " remote.address=" \o peer \o " remote.as=" \o as_number
    \o " connect=yes listen=yes local.address=" \o router_id
    \o " multihop=yes .port=179 templates=default\n"

\* Defined for two or more peer_ips; with fewer, peer_ips[1] raises IndexError.
transform_bgp_2004(router_id, as_number, peer_ips) ==
    "/routing bgp template\n"
    \o "set default as=" \o as_number
    \o " disabled=no multihop=yes output.network=bgp-networks router-id="
    \o router_id \o " routing-table=main\n"
    \o "/routing bgp connection\n"
    \o BgpConnection("Peer1", peer_ips[1], router_id, as_number)
    \o BgpConnection("Peer2", peer_ips[2], router_id, as_number)

(***************************************************************************)
(* The requests the model uploads.                                         *)
(***************************************************************************)
\* The lines a configuration is made of.
Vocabulary ==
    { "set default-name=ether2",
      "set default-name=ether1",
      "add address=10.0.0.1/24 interface=ether1 comment=ether10",
      "/ip address",
      "/ip firewall filter",
      "add chain=a",
      " add chain=a",
      "",
      "add remote.address=10.0.0.2 as=65001",
      "/routing ospf instance" }

RECURSIVE LineSeqs(_)
LineSeqs(n) ==
    IF n = 0 THEN {<<>>}
    ELSE LineSeqs(n - 1)
         \cup {Append(ls, l) : ls \in {x \in LineSeqs(n - 1) : Len(x) = n - 1},
                               l \in Vocabulary}

\* The uploaded texts: up to MaxLines lines joined by line breaks (a last line
\* that is empty gives a text ending in a line break).
Documents == {Join(ls, "\n") : ls \in LineSeqs(MaxLines)}

\* The (source_model, target_model) pairs of the form, one supported and one not.
ProfilePairs == {<<"1036", "2004">>, <<"9999", "8888">>}

\* request.form.get gives None for a field that is not sent; None and '' are
\* both false in `not source_model`.
None == ""

(***************************************************************************)
(* State.                                                                  *)
(***************************************************************************)
NoResponse == [status |-> 0, json |-> EmptyDict]

NoParams == [router_id |-> "", as_number |-> "", lan_network |-> "",
             loopback_network |-> "", peer_ips |-> <<>>]

Init ==
    /\ pc = "request"
    /\ file_name = ""
    /\ source_model = None
    /\ target_model = None
    /\ source_config = ""
    /\ config_content = ""
    /\ prev_content = ""
    /\ params = NoParams
    /\ interface_mappings = EmptyDict
    /\ firewall_rules = ""
    /\ prev_section = ""
    /\ calls = <<>>
    /\ exception = ""
    /\ response = NoResponse

Locals == <<source_config, config_content, prev_content, params,
            interface_mappings, firewall_rules, prev_section, calls, exception>>

(***************************************************************************)
(* upload_file (lines 300-342).                                            *)
(***************************************************************************)
\* 'file' not in request.files
UploadNoFile ==
    /\ pc = "request"
    /\ pc' = "done"
    /\ response' = [status |-> 400, json |-> [error |-> "No file uploaded"]]
    /\ UNCHANGED <<file_name, source_model, target_model, Locals>>

\* file.filename == ''
UploadNoFilename ==
    /\ pc = "request"
    /\ file_name' = ""
    /\ pc' = "done"
    /\ response' = [status |-> 400, json |-> [error |-> "No selected file"]]
    /\ UNCHANGED <<source_model, target_model, Locals>>

\* not source_model or not target_model
UploadNoModel ==
    /\ pc = "request"
    /\ \E pair \in ProfilePairs, missing \in {1, 2} :
          /\ source_model' = IF missing = 1 THEN None ELSE pair[1]
          /\ target_model' = IF missing = 2 THEN None ELSE pair[2]
    /\ file_name' = "export.rsc"
    /\ pc' = "done"
    /\ response' = [status |-> 400,
                    json |-> [error |-> "Source or target model not specified"]]
    /\ UNCHANGED Locals

\* The file is saved and read back; parse_and_migrate is called with its text.
UploadRead ==
    /\ pc = "request"
    /\ \E pair \in ProfilePairs, text \in Documents :
          /\ source_model' = pair[1]
          /\ target_model' = pair[2]
          /\ source_config' = text
          /\ config_content' = text
    /\ file_name' = "export.rsc"
    /\ pc' = "extract"
    /\ UNCHANGED <<prev_content, params, interface_mappings, firewall_rules,
                   prev_section, calls, exception, response>>

\* jsonify of the source and the migrated text (lines 335-338).
UploadRespond ==
    /\ pc = "return"
    /\ pc' = "done"
    /\ response' = [status |-> 200,
                    json |-> [source_config |-> source_config,
                              target_config |-> config_content]]
    /\ UNCHANGED <<file_name, source_model, target_model, Locals>>

\* except Exception as e (lines 340-342).
UploadExcept ==
    /\ pc = "except"
    /\ pc' = "done"
    /\ response' = [status |-> 500, json |-> [error |-> exception]]
    /\ UNCHANGED <<file_name, source_model, target_model, Locals>>

(***************************************************************************)
(* parse_and_migrate (lines 128-174), statement by statement.              *)
(***************************************************************************)
Request == <<file_name, source_model, target_model, source_config, response>>

\* Lines 135-139.
Extract ==
    /\ pc = "extract"
    /\ params' = [router_id |-> extract_router_id(config_content),
                  as_number |-> extract_as_number(config_content),
                  lan_network |-> extract_lan_network(config_content),
                  loopback_network |-> extract_loopback_network(config_content),
                  peer_ips |-> extract_peer_ips(config_content)]
    /\ calls' = calls \o <<"extract_router_id", "extract_as_number",
                           "extract_lan_network", "extract_loopback_network",
                           "extract_peer_ips">>
    /\ pc' = "step1"
    /\ UNCHANGED <<Request, config_content, prev_content, interface_mappings,
                   firewall_rules, prev_section, exception>>

\* Line 142.
Step1 ==
    /\ pc = "step1"
    /\ LET r == dynamic_interface_mapping(config_content, source_model, target_model)
       IN  /\ config_content' = r.config
           /\ interface_mappings' = r.mappings
    /\ prev_content' = config_content
    /\ calls' = Append(calls, "dynamic_interface_mapping")
    /\ pc' = "step2"
    /\ UNCHANGED <<Request, params, firewall_rules, prev_section, exception>>

\* Line 145.
Step2 ==
    /\ pc = "step2"
    /\ config_content' = migrate_ip_addresses(config_content, interface_mappings)
    /\ prev_content' = config_content
    /\ calls' = Append(calls, "migrate_ip_addresses")
    /\ pc' = "step3"
    /\ UNCHANGED <<Request, params, interface_mappings, firewall_rules,
                   prev_section, exception>>

\* Line 148.
Step3 ==
    /\ pc = "step3"
    /\ firewall_rules' = extract_firewall_rules(config_content)
    /\ calls' = Append(calls, "extract_firewall_rules")
    /\ pc' = "step3_dedup"
    /\ UNCHANGED <<Request, config_content, prev_content, params,
                   interface_mappings, prev_section, exception>>

\* Line 149.
Step3Dedup ==
    /\ pc = "step3_dedup"
    /\ firewall_rules' = remove_duplicates(firewall_rules)
    /\ prev_section' = firewall_rules
    /\ calls' = Append(calls, "remove_duplicates")
    /\ pc' = "step4"
    /\ UNCHANGED <<Request, config_content, prev_content, params,
                   interface_mappings, exception>>

\* Lines 152-156.  The call of line 153 passes three arguments to a function of
\* four parameters, which raises TypeError before the function runs; were the
\* call to return, line 154 calls update_ospf_authentication, a name the
\* module does not define (NameError).
Step4 ==
    /\ pc = "step4"
    /\ IF target_model = "2004"
       THEN /\ exception' =
                  IF transform_ospf_2004_args # transform_ospf_2004_params
                  THEN "transform_ospf_2004() missing 1 required positional argument: 'config_content'"
                  ELSE "name 'update_ospf_authentication' is not defined"
            /\ calls' = Append(calls, "transform_ospf_2004")
            /\ pc' = "except"
       ELSE /\ pc' = "step5"
            /\ UNCHANGED <<calls, exception>>
    /\ UNCHANGED <<Request, config_content, prev_content, params,
                   interface_mappings, firewall_rules, prev_section>>

\* Lines 159-162.
Step5 ==
    /\ pc = "step5"
    /\ IF target_model = "2004"
       THEN IF Len(params.peer_ips) < 2
            THEN /\ exception' = "list index out of range"
                 /\ calls' = Append(calls, "transform_bgp_2004")
                 /\ pc' = "except"
                 /\ UNCHANGED <<config_content, prev_content, prev_section>>
            ELSE LET bgp_section == transform_bgp_2004(params.router_id,
                                        params.as_number, params.peer_ips)
                 IN  /\ config_content' =
                           config_content \o "\n\n" \o remove_duplicates(bgp_section)
                     /\ prev_content' = config_content
                     /\ prev_section' = bgp_section
                     /\ calls' = calls \o <<"transform_bgp_2004",
                                            "remove_duplicates", "append">>
                     /\ pc' = "step6"
                     /\ UNCHANGED exception
       ELSE /\ pc' = "step6"
            /\ UNCHANGED <<config_content, prev_content, prev_section, calls,
                           exception>>
    /\ UNCHANGED <<Request, params, interface_mappings, firewall_rules>>

\* Lines 165-168.
Step6 ==
    /\ pc = "step6"
    /\ IF target_model = "2004"
       THEN LET route_section == migrate_ip_routes(config_content, interface_mappings)
            IN  /\ config_content' =
                      config_content \o "\n\n" \o remove_duplicates(route_section)
                /\ prev_content' = config_content
                /\ prev_section' = route_section
                /\ calls' = calls \o <<"migrate_ip_routes", "remove_duplicates",
                                       "append">>
       ELSE UNCHANGED <<config_content, prev_content, prev_section, calls>>
    /\ pc' = "step7"
    /\ UNCHANGED <<Request, params, interface_mappings, firewall_rules, exception>>

\* Lines 171-174.
Step7 ==
    /\ pc = "step7"
    /\ IF firewall_rules # ""
       THEN /\ config_content' = config_content \o "\n\n" \o firewall_rules
            /\ prev_content' = config_content
            /\ calls' = Append(calls, "append")
       ELSE UNCHANGED <<config_content, prev_content, calls>>
    /\ pc' = "return"
    /\ UNCHANGED <<Request, params, interface_mappings, firewall_rules,
                   prev_section, exception>>

Next ==
    \/ UploadNoFile
    \/ UploadNoFilename
    \/ UploadNoModel
    \/ UploadRead
    \/ Extract
    \/ Step1
    \/ Step2
    \/ Step3
    \/ Step3Dedup
    \/ Step4
    \/ Step5
    \/ Step6
    \/ Step7
    \/ UploadRespond
    \/ UploadExcept

Spec == Init /\ [][Next]_vars

(***************************************************************************)
(* Vocabulary of the properties.                                           *)
(***************************************************************************)
\* The space-separated tokens of a line.
RECURSIVE Tokens(_)
Tokens(line) ==
    LET i == Find(line, " ", 1)
    IN  IF i = 0 THEN <<line>>
        ELSE <<SubSeq(line, 1, i - 1)>> \o Tokens(From(line, i + 1))

\* The number of elements of S up to i.
Rank(S, i) == Cardinality({j \in S : j <= i})

Largest(S) == CHOOSE i \in S : \A j \in S : j <= i

\* The k-th name of the target family.
TargetName(k) == "sfp-sfpplus" \o ToString(k)

\* The old name of a `default-name=` line, "" for any other line.
DefaultNameOf(line) == SearchIface(line, "default-name=", 1)

\* The lines of a text that name an interface with default-name=.
DefaultNameLines(lines) == {i \in DOMAIN lines : DefaultNameOf(lines[i]) # ""}

\* The line holds prefix followed by exactly this name.
Names(line, prefix, name) ==
    \E p \in 1..Len(line) :
        /\ StartsAt(line, prefix \o name, p)
        /\ At(line, p + Len(prefix) + Len(name)) \notin Digits

\* parse_and_migrate has ended, by returning or by raising.
MigrationEnded == pc \in {"return", "except"}

\* The profile identifiers section 6 of the specification supports.
SupportedProfiles == {"1036", "2004"}

\* The section paths of the synthesized blocks.
SynthesizedPaths ==
    { "/routing ospf instance", "/routing ospf area",
      "/routing ospf interface-template", "/routing bgp template",
      "/routing bgp connection" }

\* How many lines of a text are this line, spacing aside.
CountLines(text, wanted) ==
    LET lines == SplitLines(text)
    IN  Cardinality({i \in DOMAIN lines : Strip(lines[i]) = wanted})

(***************************************************************************)
(* C1.  For every input text, parse_and_migrate with target_model "2004"   *)
(* runs to completion and returns text: it never ends in an exception.     *)
(***************************************************************************)
C1_MigrationNeverRaises ==
    target_model = "2004" => (exception = "" /\ pc # "except")

(***************************************************************************)
(* C2.  A migration whose source or target identifier is not supported     *)
(* answers with an error that names the identifier, never with a success   *)
(* carrying output text.                                                   *)
(***************************************************************************)
C2_UnknownProfileIsAnError ==
    ( /\ pc = "done"
      /\ file_name # ""
      /\ source_model # None
      /\ target_model # None
      /\ (source_model \notin SupportedProfiles
            \/ target_model \notin SupportedProfiles) )
    => /\ response.status # 200
       /\ "target_config" \notin DOMAIN response.json
       /\ "error" \in DOMAIN response.json
       /\ \E id \in {source_model, target_model} \ SupportedProfiles :
             Contains(response.json.error, id)

(***************************************************************************)
(* C3.  With a target_model other than "2004" the migration is the         *)
(* identity: the text returned equals the text given, for every input.     *)
(***************************************************************************)
C3_OtherTargetIsIdentity ==
    (pc = "return" /\ target_model # "2004") => config_content = source_config

(***************************************************************************)
(* C4.  With target "2004" the k-th line (top to bottom) that holds        *)
(* default-name= followed by an ether<digits> or sfp<digits> name is       *)
(* rewritten to name sfp-sfpplus<k>, whatever the digits of its old name;  *)
(* the mapping's keys are the old names of those lines, and it maps each   *)
(* old name to the name given to the LAST such line that carries it (with  *)
(* distinct old names: the old name of the k-th line to sfp-sfpplus<k>).   *)
(***************************************************************************)
C4_DocumentOrderAssignment ==
    (pc = "step2" /\ target_model = "2004") =>
        LET ins  == SplitLines(prev_content)
            outs == SplitLines(config_content)
            M    == DefaultNameLines(ins)
            old(i) == DefaultNameOf(ins[i])
            last(i) == Largest({j \in M : old(j) = old(i)})
        IN  /\ \A i \in M :
                  /\ i <= Len(outs)
                  /\ Names(outs[i], "default-name=", TargetName(Rank(M, i)))
            /\ \A i \in DOMAIN outs \ M : outs[i] = ins[i]
            /\ DOMAIN interface_mappings = {old(i) : i \in M}
            /\ \A i \in M :
                  interface_mappings[old(i)] = TargetName(Rank(M, last(i)))

\* C4 as first stated: the mapping sends the old name of the k-th such line to
\* sfp-sfpplus<k>, for every k.
C4_AsStated ==
    (pc = "step2" /\ target_model = "2004") =>
        LET ins == SplitLines(prev_content)
            M   == DefaultNameLines(ins)
        IN  \A i \in M :
                /\ DefaultNameOf(ins[i]) \in DOMAIN interface_mappings
                /\ interface_mappings[DefaultNameOf(ins[i])] = TargetName(Rank(M, i))

\* C4 happens: ether2 is named before ether1 and gets the lower index.
C4_Witness ==
    /\ pc = "step2"
    /\ target_model = "2004"
    /\ LET ins == SplitLines(prev_content)
       IN  \E i, j \in DefaultNameLines(ins) :
              /\ i < j
              /\ DefaultNameOf(ins[i]) = "ether2"
              /\ DefaultNameOf(ins[j]) = "ether1"
    /\ interface_mappings = [k \in {"ether1", "ether2"} |->
                                IF k = "ether2" THEN "sfp-sfpplus1"
                                ELSE "sfp-sfpplus2"]

(***************************************************************************)
(* C5.  After the reference rewrite of a migration with target "2004", no  *)
(* interface=<name> token whose name is a key of the mapping remains       *)
(* anywhere in the document, before or after the /ip address header.      *)
(* (The gateway= rewrite of line 166 is never reached: see C1.)            *)
(***************************************************************************)
C5_NoOldReferenceRemains ==
    (pc = "step3" /\ target_model = "2004") =>
        LET lines == SplitLines(config_content)
        IN  \A i \in DOMAIN lines : \A k \in DOMAIN interface_mappings :
                LET toks == Tokens(lines[i])
                IN  \A t \in DOMAIN toks :
                        toks[t] \notin {"interface=" \o k, "gateway=" \o k}

(***************************************************************************)
(* C6.  The reference rewrite changes only interface=<name> and            *)
(* gateway=<name> tokens whose name is a key of the mapping: every other   *)
(* token of every line is what it was before the rewrite.                  *)
(***************************************************************************)
C6_OnlyMappedTokensChange ==
    (pc = "step3" /\ target_model = "2004") =>
        LET before == SplitLines(prev_content)
            after  == SplitLines(config_content)
        IN  /\ Len(after) <= Len(before)
            /\ \A i \in DOMAIN after :
                  LET b == Tokens(before[i])
                      a == Tokens(after[i])
                  IN  /\ Len(a) = Len(b)
                      /\ \A t \in DOMAIN b :
                            \/ a[t] = b[t]
                            \/ \E k \in DOMAIN interface_mappings :
                                 \E key \in {"interface=", "gateway="} :
                                    /\ b[t] = key \o k
                                    /\ a[t] = key \o interface_mappings[k]

(***************************************************************************)
(* C7.  A migration with target "2004" returns text that holds each        *)
(* synthesized section path exactly once, whether or not the input already *)
(* had a section of that path.                                             *)
(***************************************************************************)
C7_SynthesizedPathsOnce ==
    (MigrationEnded /\ target_model = "2004") =>
        /\ pc = "return"
        /\ \A path \in SynthesizedPaths : CountLines(config_content, path) = 1

(***************************************************************************)
(* C8.  The extracted peer_ips list always has at least two entries, and   *)
(* the document a migration with target "2004" ends with holds exactly two *)
(* connection entries.                                                     *)
(***************************************************************************)
C8_AtLeastTwoPeers ==
    /\ calls # <<>> => Len(params.peer_ips) >= 2
    /\ (MigrationEnded /\ target_model = "2004") =>
          LET lines == SplitLines(config_content)
          IN  Cardinality({i \in DOMAIN lines :
                              StartsAt(lines[i], "add name=Peer", 1)}) = 2

SpanOf(lines, i) == Cardinality({j \in 1..i : StartsAt(lines[j], "/", 1)})

PhaseOf(call) ==
    CASE call \in {"extract_router_id", "extract_as_number", "extract_lan_network",
                   "extract_loopback_network", "extract_peer_ips"} -> 1
      [] call = "dynamic_interface_mapping" -> 2
      [] call \in {"migrate_ip_addresses", "migrate_ip_routes"} -> 3
      [] call \in {"extract_firewall_rules", "transform_ospf_2004",
                   "transform_bgp_2004", "append"} -> 4
      [] call = "remove_duplicates" -> 5

C10_StrictPhaseOrder ==
    /\ \A i, j \in DOMAIN calls : i < j => PhaseOf(calls[i]) <= PhaseOf(calls[j])
    /\ pc = "return" => (calls # <<>> /\ calls[Len(calls)] = "remove_duplicates")

====
